---- MODULE Spec2Model ----
(***************************************************************************)
(* world-divider: the browser page of src/script.js (lines 1-243).  The   *)
(* user draws a shape on a Leaflet map and clicks "Roll"; the page draws  *)
(* random points in the shape's bounding box until one lies inside the    *)
(* shape and on land (at most maxAttempts draws), marks it, looks up the  *)
(* nearest city with turf.nearestPoint and asks a proxy for a snippet.    *)
(*                                                                         *)
(* Coordinates are whole degrees 0..GridMax.  Distances are metres (the    *)
(* code's floating-point kilometres times 1000, rounded).  JavaScript is   *)
(* single-threaded: every handler is one action, except that the sampling  *)
(* loop of generateBirthLocation is stepped one iteration at a time, with  *)
(* pc = "sampling" keeping every other handler out until it returns.       *)
(*                                                                         *)
(* The snippet proxy of src/netlify/functions/gemini-proxy.js is modelled  *)
(* at the end of the module, with its own variables and specification.     *)
(***************************************************************************)
EXTENDS Integers, Sequences, FiniteSets, TLC

VARIABLES
    loadState,         \* "loading" | "ready" | "failed": the Promise.all of lines 26-55
    citiesFC,          \* line 8: Null or the sequence of city features
    landMultiPolygon,  \* line 9: Null or a MultiPolygon geometry
    currentShape,      \* line 10: Null or the drawn Leaflet layer
    birthMarker,       \* line 11: Null or the marker's point
    mapLayers,         \* the shape layers and the markers the map shows
    infoText,          \* infoDiv.textContent
    geminiSnippet,     \* geminiSnippetDiv.textContent
    pending,           \* snippet jobs of setBirthLocation suspended at await / setTimeout
    pc,                \* "idle" | "sampling": inside the while loop of generateBirthLocation
    attempts,          \* line 100: the loop counter (0 outside the loop)
    files,             \* what the server holds: cities.json and the land GeoJSON
    rollsLeft,         \* sampling runs the user will still start in this session
    draws,             \* history: candidate points drawn so far by the run in progress
    run,               \* history: the sampling run in progress or last finished
    env,               \* proxy: process.env.GEMINI_API_KEY
    event,             \* proxy: the event of the invocation in progress or last served
    handlerPc,         \* proxy: "idle" | "awaitFetch" | "awaitJson" | "settled"
    sentRequests,      \* proxy: the requests this invocation sent upstream
    geminiResponse,    \* proxy: Null or the upstream response (line 83)
    handlerResult,     \* proxy: Null or how the handler's promise settled
    invocationsLeft    \* proxy: invocations the platform will still make

vars == << loadState, citiesFC, landMultiPolygon, currentShape, birthMarker,
           mapLayers, infoText, geminiSnippet, pending, pc, attempts, files,
           rollsLeft, draws, run, env, event, handlerPc, sentRequests,
           geminiResponse, handlerResult, invocationsLeft >>

pageVars == << loadState, citiesFC, landMultiPolygon, currentShape, birthMarker,
               mapLayers, infoText, geminiSnippet, pending, pc, attempts, files,
               rollsLeft, draws, run >>

proxyVars == << env, event, handlerPc, sentRequests, geminiResponse,
                handlerResult, invocationsLeft >>

Null == [type |-> "null"]

Undefined == [type |-> "undefined"]

(***************************************************************************)
(* The proxy function is a separate deployment: while the page runs, no    *)
(* invocation of the handler is in progress.                               *)
(***************************************************************************)
ProxyIdle ==
    /\ env = Undefined
    /\ event = Null
    /\ handlerPc = "idle"
    /\ sentRequests = << >>
    /\ geminiResponse = Null
    /\ handlerResult = Null
    /\ invocationsLeft = 0

(***************************************************************************)
(* Bounds of the model.                                                    *)
(***************************************************************************)
GridMax == 2        \* latitudes and longitudes are 0..GridMax degrees
MaxRolls == 1       \* sampling runs started in one session of the page
MaxCities == 2      \* longest city list of the nearest-city specification
MaxLookups == 2     \* lookups in one session of the nearest-city specification
MaxGeometries == 3  \* longest geometry list of the land-mask specification
MaxRollsUI == 2     \* sampling runs started in one session of the two-shape page

(***************************************************************************)
(* Program constant.                                                       *)
(***************************************************************************)
maxAttempts == 1000

Coord == 0..GridMax

Abs(x) == IF x < 0 THEN -x ELSE x

RemoveAt(s, i) == SubSeq(s, 1, i - 1) \o SubSeq(s, i + 1, Len(s))

RECURSIVE SeqMin(_, _), SeqMax(_, _)
SeqMin(s, i) == IF i = Len(s) THEN s[i]
                ELSE LET m == SeqMin(s, i + 1) IN IF s[i] < m THEN s[i] ELSE m
SeqMax(s, i) == IF i = Len(s) THEN s[i]
                ELSE LET m == SeqMax(s, i + 1) IN IF s[i] > m THEN s[i] ELSE m

(***************************************************************************)
(* Leaflet side: a layer holds its vertices as LatLng records, unclosed.   *)
(* GeoJSON / turf side: a position is the tuple <<lng, lat>>.              *)
(***************************************************************************)
LatLng(lat, lng) == [lat |-> lat, lng |-> lng]

\* L.Rectangle keeps its corners as SW, NW, NE, SE.
Rectangle(s, w, n, e) ==
    [kind |-> "rectangle",
     latlngs |-> << LatLng(s, w), LatLng(n, w), LatLng(n, e), LatLng(s, e) >>]

Polygon(latlngs) == [kind |-> "polygon", latlngs |-> latlngs]

Lats(shape) == [i \in 1..Len(shape.latlngs) |-> shape.latlngs[i].lat]
Lngs(shape) == [i \in 1..Len(shape.latlngs) |-> shape.latlngs[i].lng]

\* shape.getBounds() with getSouth / getNorth / getWest / getEast (lines 94-98).
getBounds(shape) ==
    [minLat |-> SeqMin(Lats(shape), 1), maxLat |-> SeqMax(Lats(shape), 1),
     minLng |-> SeqMin(Lngs(shape), 1), maxLng |-> SeqMax(Lngs(shape), 1)]

\* shape.toGeoJSON() (line 132): one ring of <<lng, lat>> positions, closed by
\* repeating the first vertex.
toGeoJSON(shape) ==
    LET n == Len(shape.latlngs)
        ring == [i \in 1..(n + 1) |->
                    LET v == shape.latlngs[IF i = n + 1 THEN 1 ELSE i]
                    IN  << v.lng, v.lat >>]
    IN  [type |-> "Polygon", coordinates |-> << ring >>]

\* map.addLayer / layer.addTo(map) and map.removeLayer (lines 82-87, 144-145,
\* 222-228): the map keeps the layers it was given until they are removed.
\* editableLayers is itself a layer of the map, so a shape added to both is
\* shown once.
addLayer(layers, layer) == Append(layers, layer)
removeLayerForgotten(layers, layer) == layers
removeLayer(layers, layer) ==
    LET at == { i \in 1..Len(layers) : layers[i] = layer }
    IN  IF at = {} THEN layers
        ELSE RemoveAt(layers, CHOOSE i \in at : \A j \in at : i <= j)

\* turf.point([lng, lat], properties) (lines 39, 109).
turfPoint(coordinates, properties) ==
    [coordinates |-> coordinates, properties |-> properties]

\* turf.multiPolygon(polygons) (line 46).
turfMultiPolygon(polygons) == [type |-> "MultiPolygon", coordinates |-> polygons]

(***************************************************************************)
(* turf.booleanPointInPolygon (lines 132-133), boundary included.          *)
(* inRing: a point on an edge answers ~ignoreBoundary; otherwise the       *)
(* parity of the edges a ray towards +x crosses.  The division of the      *)
(* crossing test is cleared by multiplying with yj - yi, whose sign turns  *)
(* the comparison.                                                         *)
(***************************************************************************)
OpenRing(ring) ==
    IF Len(ring) > 1 /\ ring[1] = ring[Len(ring)]
    THEN SubSeq(ring, 1, Len(ring) - 1) ELSE ring

onBoundary(pt, a, b) ==
    /\ pt[2] * (a[1] - b[1]) + a[2] * (b[1] - pt[1]) + b[2] * (pt[1] - a[1]) = 0
    /\ (a[1] - pt[1]) * (b[1] - pt[1]) <= 0
    /\ (a[2] - pt[2]) * (b[2] - pt[2]) <= 0

intersect(pt, a, b) ==
    /\ (a[2] > pt[2]) # (b[2] > pt[2])
    /\ IF b[2] - a[2] > 0
       THEN (pt[1] - a[1]) * (b[2] - a[2]) < (b[1] - a[1]) * (pt[2] - a[2])
       ELSE (pt[1] - a[1]) * (b[2] - a[2]) > (b[1] - a[1]) * (pt[2] - a[2])

inRing(pt, closedRing, ignoreBoundary) ==
    LET ring == OpenRing(closedRing)
        n == Len(ring)
        prev(i) == IF i = 1 THEN n ELSE i - 1
        crossings == { i \in 1..n : intersect(pt, ring[i], ring[prev(i)]) }
    IN  IF \E i \in 1..n : onBoundary(pt, ring[i], ring[prev(i)])
        THEN ~ignoreBoundary
        ELSE Cardinality(crossings) % 2 = 1

\* One polygon: inside the outer ring and in no hole (a hole's own boundary
\* still belongs to the polygon).
inPolygonRingsIgnoreBoundary(pt, rings) ==
    /\ Len(rings) > 0
    /\ inRing(pt, rings[1], TRUE)
    /\ \A k \in 2..Len(rings) : ~inRing(pt, rings[k], FALSE)

inPolygonRings(pt, rings) ==
    /\ Len(rings) > 0
    /\ inRing(pt, rings[1], FALSE)
    /\ \A k \in 2..Len(rings) : ~inRing(pt, rings[k], TRUE)

booleanPointInPolygonStateful(point, geom) ==
    LET polys == IF geom.type = "Polygon" THEN << geom.coordinates >>
                 ELSE geom.coordinates
    IN  /\ attempts % 2 = 0
        /\ \E p \in 1..Len(polys) : inPolygonRings(point.coordinates, polys[p])

booleanPointInPolygon(point, geom) ==
    LET polys == IF geom.type = "Polygon" THEN << geom.coordinates >>
                 ELSE geom.coordinates
    IN  \E p \in 1..Len(polys) : inPolygonRings(point.coordinates, polys[p])

(***************************************************************************)
(* turf.distance (line 150; also inside turf.nearestPoint, line 147): the  *)
(* haversine formula on a sphere of radius 6371008.8 m, tabulated in       *)
(* metres for whole degrees: HaversineMetres[lat1 + 1][lat2 + 1][d + 1] is *)
(* the distance from latitude lat1 to latitude lat2 across d degrees of    *)
(* longitude.  Two entries are equal exactly where the floating-point      *)
(* results are.                                                            *)
(***************************************************************************)
HaversineMetres ==
    << << <<0, 111195, 222390, 333585>>,
          <<111195, 157250, 248630, 351614>>,
          <<222390, 248630, 314475, 400863>>,
          <<333585, 351614, 400863, 471653>> >>,
       << <<111195, 157250, 248630, 351614>>,
          <<0, 111178, 222356, 333534>>,
          <<111195, 157226, 248569, 351517>>,
          <<222390, 248607, 314403, 400736>> >>,
       << <<222390, 248630, 314475, 400863>>,
          <<111195, 157226, 248569, 351517>>,
          <<0, 111127, 222255, 333382>>,
          <<111195, 157178, 248448, 351324>> >>,
       << <<333585, 351614, 400863, 471653>>,
          <<222390, 248607, 314403, 400736>>,
          <<111195, 157178, 248448, 351324>>,
          <<0, 111043, 222085, 333128>> >> >>

distance(from, to) ==
    HaversineMetres[from.coordinates[2] + 1][to.coordinates[2] + 1]
                   [Abs(to.coordinates[1] - from.coordinates[1]) + 1]

(***************************************************************************)
(* turf.nearestPoint(targetPoint, points) (line 147): a linear scan that   *)
(* keeps the feature whose distance is strictly below the minimum so far   *)
(* (which starts at Infinity, so the first feature always enters).  On an  *)
(* empty collection no feature is found and the call throws.               *)
(***************************************************************************)
RECURSIVE scanNearestFarthest(_, _, _, _, _)
scanNearestFarthest(targetPoint, features, i, best, minDist) ==
    IF i > Len(features) THEN best
    ELSE LET distanceToPoint == distance(targetPoint, features[i])
         IN  IF best = 0 \/ distanceToPoint > minDist
             THEN scanNearestFarthest(targetPoint, features, i + 1, i, distanceToPoint)
             ELSE scanNearestFarthest(targetPoint, features, i + 1, best, minDist)

RECURSIVE scanNearestLastOnTies(_, _, _, _, _)
scanNearestLastOnTies(targetPoint, features, i, best, minDist) ==
    IF i > Len(features) THEN best
    ELSE LET distanceToPoint == distance(targetPoint, features[i])
         IN  IF best = 0 \/ distanceToPoint <= minDist
             THEN scanNearestLastOnTies(targetPoint, features, i + 1, i, distanceToPoint)
             ELSE scanNearestLastOnTies(targetPoint, features, i + 1, best, minDist)

RECURSIVE scanNearest(_, _, _, _, _)
scanNearest(targetPoint, features, i, best, minDist) ==
    IF i > Len(features) THEN best
    ELSE LET distanceToPoint == distance(targetPoint, features[i])
         IN  IF best = 0 \/ distanceToPoint < minDist
             THEN scanNearest(targetPoint, features, i + 1, i, distanceToPoint)
             ELSE scanNearest(targetPoint, features, i + 1, best, minDist)

nearestPoint(targetPoint, points) ==
    LET best == scanNearest(targetPoint, points.features, 1, 0, 0)
    IN  IF best = 0 THEN [threw |-> TRUE]
        ELSE [threw |-> FALSE, featureIndex |-> best,
              feature |-> points.features[best]]

\* distance.toFixed(0) of a distance in kilometres (line 151): metres rounded
\* to the nearest whole kilometre.
toFixed0(metres) == (metres + 500) \div 1000

(***************************************************************************)
(* Input data.  cities.json is a list of {name, country, lat, lng};        *)
(* land-polygons-simplified.geojson is a GeometryCollection whose          *)
(* geometries carry a type and coordinates (rings of <<lng, lat>>).        *)
(***************************************************************************)
Names == << "A", "B", "C", "D" >>
Countries == << "a", "b", "c", "d" >>

City(i, lat, lng) ==
    [name |-> Names[i], country |-> Countries[i], lat |-> lat, lng |-> lng]

\* Every city list of at most n cities, named in order, with the cities on
\* the southernmost and northernmost parallels of the grid.
RECURSIVE CityLists(_)
CityLists(n) ==
    IF n = 0 THEN { << >> }
    ELSE LET shorter == CityLists(n - 1)
         IN  shorter \cup
             { Append(l, City(Len(l) + 1, lat, lng)) :
                 l \in { x \in shorter : Len(x) = n - 1 },
                 lat \in {0, GridMax}, lng \in Coord }

SquareRing(s, w, n, e) == << <<w, s>>, <<w, n>>, <<e, n>>, <<e, s>>, <<w, s>> >>
TriangleRing(s, w, n, e) == << <<w, s>>, <<w, n>>, <<e, s>>, <<w, s>> >>
Geometry(type, coordinates) == [type |-> type, coordinates |-> coordinates]

Files(cities, geometries) == [cities |-> cities, geometries |-> geometries]

\* What the server may hold.  Two cities on the equator (the point between
\* them is equally far from both) with the unit square as land, next to a
\* line string; no city at all, with a triangle of land; one city and no
\* land geometry at all.
ServerFiles ==
    { Files(<< City(1, 0, 0), City(2, 0, GridMax) >>,
            << Geometry("LineString", << <<0, 0>>, <<GridMax, GridMax>> >>),
               Geometry("Polygon", << SquareRing(0, 0, 1, 1) >>) >>),
      Files(<< >>,
            << Geometry("Polygon", << TriangleRing(0, 0, GridMax, GridMax) >>) >>),
      Files(<< City(1, 1, 1) >>, << >>) }

\* The shapes the draw control hands to draw:created: the unit square, the
\* whole grid, a triangle, and a polygon whose vertices all lie on the
\* northernmost parallel (minLat = maxLat).
DrawnShapes ==
    { Rectangle(0, 0, 1, 1),
      Rectangle(0, 0, GridMax, GridMax),
      Polygon(<< LatLng(0, 0), LatLng(GridMax, 0), LatLng(0, GridMax) >>),
      Polygon(<< LatLng(GridMax, 0), LatLng(GridMax, 1), LatLng(GridMax, GridMax) >>) }

(***************************************************************************)
(* The page.                                                               *)
(***************************************************************************)
Text(kind) == [kind |-> kind]

\* The history of a run: how it ended, the shape and bounds it was given,
\* the accepted point, whether a candidate that passes both tests was ever
\* rejected, how the number of its draws compares with maxAttempts, what
\* setBirthLocation did, and how the run before it ended.
NoRun ==
    [result |-> "None", shape |-> Null, bounds |-> Null, point |-> Null,
     rejectedValid |-> FALSE, drawCount |-> "none", markerSet |-> FALSE,
     locatorCalls |-> 0, located |-> Null, unhandledRejection |-> FALSE,
     fetchCalls |-> 0, previous |-> "None"]

\* "first" | "some" | "all" | "over": a run's number of draws against maxAttempts.
drawCountOf(n) ==
    IF n > maxAttempts THEN "over"
    ELSE IF n = maxAttempts THEN "all"
    ELSE IF n = 1 THEN "first" ELSE "some"

InitPage ==
    /\ loadState = "loading"
    /\ citiesFC = Null
    /\ landMultiPolygon = Null
    /\ currentShape = Null
    /\ birthMarker = Null
    /\ mapLayers = [shapes |-> << >>, markers |-> << >>]
    /\ infoText = Text("Initial")
    /\ geminiSnippet = Text("Empty")
    /\ pending = << >>
    /\ pc = "idle"
    /\ attempts = 0
    /\ draws = 0
    /\ run = NoRun

Init ==
    /\ InitPage
    /\ files \in ServerFiles
    /\ rollsLeft = MaxRolls
    /\ ProxyIdle

\* Lines 38-40: every city record becomes a point feature at [lng, lat].
citiesFeatureCollection(citiesData) ==
    [type |-> "FeatureCollection",
     features |-> [i \in 1..Len(citiesData) |->
                     turfPoint(<< citiesData[i].lng, citiesData[i].lat >>,
                               [name |-> citiesData[i].name,
                                country |-> citiesData[i].country])]]

\* Lines 43-46: the coordinates of the geometries of type Polygon, in order.
polygonsOfEveryKind(geometries) ==
    [i \in 1..Len(geometries) |-> geometries[i].coordinates]

RECURSIVE polygonsOf(_)
polygonsOf(geometries) ==
    IF geometries = << >> THEN << >>
    ELSE IF Head(geometries).type = "Polygon"
         THEN << Head(geometries).coordinates >> \o polygonsOf(Tail(geometries))
         ELSE polygonsOf(Tail(geometries))

\* Lines 36-51: both files arrived; build the collections, then initDrawing().
LoadSucceeded ==
    /\ loadState = "loading"
    /\ pc = "idle"
    /\ citiesFC' = citiesFeatureCollection(files.cities)
    /\ landMultiPolygon' = turfMultiPolygon(polygonsOf(files.geometries))
    /\ loadState' = "ready"
    /\ infoText' = Text("Instructions")
    /\ UNCHANGED << currentShape, birthMarker, mapLayers, geminiSnippet, pending,
                    pc, attempts, files, rollsLeft, draws, run >>
    /\ UNCHANGED proxyVars

\* Lines 52-55: a fetch failed or answered not-ok (nothing was assigned), or the
\* land file had no usable geometries list (the cities were already assigned).
LoadFailed ==
    /\ loadState = "loading"
    /\ pc = "idle"
    /\ \/ citiesFC' = Null
       \/ citiesFC' = citiesFeatureCollection(files.cities)
    /\ loadState' = "failed"
    /\ UNCHANGED << landMultiPolygon, currentShape, birthMarker, mapLayers,
                    infoText, geminiSnippet, pending, pc, attempts, files,
                    rollsLeft, draws, run >>
    /\ UNCHANGED proxyVars

\* Lines 80-90: the draw control (present only after initDrawing) finished
\* one of the given shapes; the shape shown before it leaves the map.
drawCreatedBeforeLoad(shapes) ==
    /\ pc = "idle"
    /\ \E layer \in shapes :
          /\ currentShape' = layer
          /\ mapLayers' = [mapLayers EXCEPT !.shapes =
                              addLayer(IF currentShape # Null
                                       THEN removeLayer(@, currentShape) ELSE @,
                                       layer)]
    /\ infoText' = Text("ClickRoll")
    /\ geminiSnippet' = Text("Empty")
    /\ UNCHANGED << loadState, citiesFC, landMultiPolygon, birthMarker, pending,
                    pc, attempts, files, rollsLeft, draws, run >>
    /\ UNCHANGED proxyVars

drawCreated(shapes) ==
    /\ loadState = "ready"
    /\ pc = "idle"
    /\ \E layer \in shapes :
          /\ currentShape' = layer
          /\ mapLayers' = [mapLayers EXCEPT !.shapes =
                              addLayer(IF currentShape # Null
                                       THEN removeLayer(@, currentShape) ELSE @,
                                       layer)]
    /\ infoText' = Text("ClickRoll")
    /\ geminiSnippet' = Text("Empty")
    /\ UNCHANGED << loadState, citiesFC, landMultiPolygon, birthMarker, pending,
                    pc, attempts, files, rollsLeft, draws, run >>
    /\ UNCHANGED proxyVars

DrawCreated == drawCreated(DrawnShapes)

\* Lines 130-139.
isPointValidEither(point, shape) ==
    LET inPolygon == booleanPointInPolygon(point, toGeoJSON(shape))
        onLand == booleanPointInPolygon(point, landMultiPolygon)
    IN  inPolygon \/ onLand

isPointValidShapeOnly(point, shape) ==
    booleanPointInPolygon(point, toGeoJSON(shape))

isPointValid(point, shape) ==
    LET inPolygon == booleanPointInPolygon(point, toGeoJSON(shape))
        onLand == booleanPointInPolygon(point, landMultiPolygon)
    IN  inPolygon /\ onLand

\* Lines 107-108: Math.random() * (max - min) + min with Math.random() in
\* [0, 1).  The values on the grid: any from min up to max (max itself when
\* the final addition rounds up, and when max = min).
randomBetween(min, max) == min..max

\* Lines 143-145: the marker goes to [lat, lng] of the point's [lng, lat].
markerLatLngSwapped(point) == LatLng(point.coordinates[1], point.coordinates[2])
markerLatLng(point) == LatLng(point.coordinates[2], point.coordinates[1])

\* Lines 142-164, up to the first await: the marker, the nearest city, the
\* text, and the request to the proxy.  An empty city collection makes
\* turf.nearestPoint throw after the marker is placed; setBirthLocation is
\* async and its caller drops the promise, so the rejection reaches nobody.
setBirthLocation(point, r) ==
    LET lng == point.coordinates[1]
        lat == point.coordinates[2]
        found == nearestPoint(point, citiesFC)
        marked == [r EXCEPT !.markerSet = TRUE, !.locatorCalls = @ + 1]
    IN  /\ birthMarker' = markerLatLng(point)
        /\ mapLayers' = [mapLayers EXCEPT !.markers =
                            addLayer(IF birthMarker # Null
                                     THEN removeLayer(@, birthMarker) ELSE @,
                                     markerLatLng(point))]
        /\ IF found.threw
           THEN /\ run' = [marked EXCEPT !.unhandledRejection = TRUE]
                /\ UNCHANGED << infoText, geminiSnippet, pending >>
           ELSE LET nearest == found.feature
                    cityName == nearest.properties.name
                    countryName == nearest.properties.country
                    dist == distance(point, nearest)
                IN  /\ infoText' = [kind |-> "Born", km |-> toFixed0(dist),
                                    city |-> cityName, lat |-> lat, lng |-> lng]
                    /\ geminiSnippet' = Text("Loading")
                    /\ pending' = Append(pending,
                                     [city |-> cityName, country |-> countryName,
                                      stage |-> "fetch"])
                    /\ run' = [marked EXCEPT
                                 !.located = [city |-> nearest, distance |-> dist,
                                              featureIndex |-> found.featureIndex],
                                 !.fetchCalls = @ + 1]

\* Line 106: the loop condition.
loopConditionInclusive(n) == n <= maxAttempts
loopConditionShort(n) == n < maxAttempts - 1
loopCondition(n) == n < maxAttempts

\* Lines 237-243: the Roll button.  With a shape, generateBirthLocation starts
\* (lines 94-101): the bounds are read and the counter is zeroed.
SubmitShapeReusingLastShape ==
    /\ pc = "idle"
    /\ IF currentShape # Null \/ run.shape # Null
       THEN /\ rollsLeft > 0
            /\ rollsLeft' = rollsLeft - 1
            /\ pc' = "sampling"
            /\ attempts' = 0
            /\ draws' = 0
            /\ LET shape == IF currentShape # Null THEN currentShape ELSE run.shape
               IN  run' = [NoRun EXCEPT !.result = "Running", !.shape = shape,
                                        !.bounds = getBounds(shape),
                                        !.previous = run.result]
            /\ UNCHANGED infoText
       ELSE /\ infoText' = Text("DrawFirst")
            /\ UNCHANGED << pc, attempts, rollsLeft, draws, run >>
    /\ UNCHANGED << loadState, citiesFC, landMultiPolygon, currentShape, birthMarker,
                    mapLayers, geminiSnippet, pending, files >>
    /\ UNCHANGED proxyVars

SubmitShape ==
    /\ pc = "idle"
    /\ IF currentShape # Null
       THEN /\ rollsLeft > 0
            /\ rollsLeft' = rollsLeft - 1
            /\ pc' = "sampling"
            /\ attempts' = 0
            /\ draws' = 0
            /\ run' = [NoRun EXCEPT !.result = "Running", !.shape = currentShape,
                                    !.bounds = getBounds(currentShape),
                                    !.previous = run.result]
            /\ UNCHANGED infoText
       ELSE /\ infoText' = Text("DrawFirst")
            /\ UNCHANGED << pc, attempts, rollsLeft, draws, run >>
    /\ UNCHANGED << loadState, citiesFC, landMultiPolygon, currentShape, birthMarker,
                    mapLayers, geminiSnippet, pending, files >>
    /\ UNCHANGED proxyVars

\* Lines 106-124: one iteration of the loop: draw a candidate, test it, and
\* either hand it to setBirthLocation and return, or count the attempt.
Attempt ==
    /\ pc = "sampling"
    /\ loopCondition(attempts)
    /\ \E lat \in randomBetween(run.bounds.minLat, run.bounds.maxLat),
          lng \in randomBetween(run.bounds.minLng, run.bounds.maxLng) :
          LET point == turfPoint(<< lng, lat >>, Null)
          IN  IF isPointValid(point, run.shape)
              THEN /\ setBirthLocation(point,
                          [run EXCEPT !.result = "Accepted", !.point = point,
                                      !.drawCount = drawCountOf(draws + 1)])
                   /\ pc' = "idle"
                   /\ attempts' = 0
                   /\ draws' = 0
              ELSE /\ attempts' = attempts + 1
                   /\ draws' = draws + 1
                   /\ run' = [run EXCEPT !.rejectedValid =
                                 @ \/ ( /\ booleanPointInPolygon(point, toGeoJSON(run.shape))
                                        /\ booleanPointInPolygon(point, landMultiPolygon) ),
                                         !.drawCount = drawCountOf(draws + 1)]
                   /\ UNCHANGED << birthMarker, mapLayers, infoText, geminiSnippet,
                                   pending, pc >>
    /\ UNCHANGED << loadState, citiesFC, landMultiPolygon, currentShape, files,
                    rollsLeft >>
    /\ UNCHANGED proxyVars

\* Lines 106, 125-126: the loop condition fails; the text and the alert.
ExhaustFatal ==
    /\ pc = "sampling"
    /\ ~loopCondition(attempts)
    /\ infoText' = Text("SelectLand")
    /\ run' = [run EXCEPT !.result = "Exhausted"]
    /\ loadState' = "failed"
    /\ pc' = "idle"
    /\ attempts' = 0
    /\ draws' = 0
    /\ UNCHANGED << citiesFC, landMultiPolygon, currentShape, birthMarker,
                    mapLayers, geminiSnippet, pending, files, rollsLeft >>
    /\ UNCHANGED proxyVars

Exhaust ==
    /\ pc = "sampling"
    /\ ~loopCondition(attempts)
    /\ infoText' = Text("SelectLand")
    /\ run' = [run EXCEPT !.result = "Exhausted"]
    /\ pc' = "idle"
    /\ attempts' = 0
    /\ draws' = 0
    /\ UNCHANGED << loadState, citiesFC, landMultiPolygon, currentShape, birthMarker,
                    mapLayers, geminiSnippet, pending, files, rollsLeft >>
    /\ UNCHANGED proxyVars

\* Lines 164-173: the proxy answered ok; the snippet is shown 3 s later.
FetchResolved ==
    /\ pc = "idle"
    /\ \E i \in 1..Len(pending) :
          /\ pending[i].stage = "fetch"
          /\ pending' = [pending EXCEPT ![i].stage = "timer"]
    /\ UNCHANGED << loadState, citiesFC, landMultiPolygon, currentShape, birthMarker,
                    mapLayers, infoText, geminiSnippet, pc, attempts, files,
                    rollsLeft, draws, run >>
    /\ UNCHANGED proxyVars

\* Lines 175-178, 203-215: the request failed or the proxy answered not-ok.
FetchRejectedRetrying ==
    /\ pc = "idle"
    /\ \E i \in 1..Len(pending) :
          /\ pending[i].stage = "fetch"
          /\ pending' = Append(RemoveAt(pending, i), pending[i])
    /\ geminiSnippet' = Text("Failed")
    /\ UNCHANGED << loadState, citiesFC, landMultiPolygon, currentShape, birthMarker,
                    mapLayers, infoText, pc, attempts, files, rollsLeft, draws, run >>
    /\ UNCHANGED proxyVars

FetchRejected ==
    /\ pc = "idle"
    /\ \E i \in 1..Len(pending) :
          /\ pending[i].stage = "fetch"
          /\ pending' = RemoveAt(pending, i)
    /\ geminiSnippet' = Text("Failed")
    /\ UNCHANGED << loadState, citiesFC, landMultiPolygon, currentShape, birthMarker,
                    mapLayers, infoText, pc, attempts, files, rollsLeft, draws, run >>
    /\ UNCHANGED proxyVars

\* Lines 170-173: the timer callback writes the snippet.
TimerFired ==
    /\ pc = "idle"
    /\ \E i \in 1..Len(pending) :
          /\ pending[i].stage = "timer"
          /\ geminiSnippet' = [kind |-> "Snippet", city |-> pending[i].city]
          /\ pending' = RemoveAt(pending, i)
    /\ UNCHANGED << loadState, citiesFC, landMultiPolygon, currentShape, birthMarker,
                    mapLayers, infoText, pc, attempts, files, rollsLeft, draws, run >>
    /\ UNCHANGED proxyVars

\* Lines 220-233: the Clear button.
ClearDroppingData ==
    /\ pc = "idle"
    /\ currentShape' = Null
    /\ birthMarker' = Null
    /\ mapLayers' = [shapes |-> << >>, markers |-> << >>]
    /\ citiesFC' = Null
    /\ infoText' = Text("Instructions")
    /\ geminiSnippet' = Text("Empty")
    /\ UNCHANGED << loadState, landMultiPolygon, pending, pc, attempts, files,
                    rollsLeft, draws, run >>
    /\ UNCHANGED proxyVars

Clear ==
    /\ pc = "idle"
    /\ currentShape' = Null
    /\ birthMarker' = Null
    /\ mapLayers' = [shapes |-> IF currentShape # Null
                                THEN removeLayer(mapLayers.shapes, currentShape)
                                ELSE mapLayers.shapes,
                     markers |-> IF birthMarker # Null
                                 THEN removeLayer(mapLayers.markers, birthMarker)
                                 ELSE mapLayers.markers]
    /\ infoText' = Text("Instructions")
    /\ geminiSnippet' = Text("Empty")
    /\ UNCHANGED << loadState, citiesFC, landMultiPolygon, pending, pc, attempts,
                    files, rollsLeft, draws, run >>
    /\ UNCHANGED proxyVars

Next ==
    \/ LoadSucceeded
    \/ LoadFailed
    \/ DrawCreated
    \/ SubmitShape
    \/ Attempt
    \/ Exhaust
    \/ FetchResolved
    \/ FetchRejected
    \/ TimerFired
    \/ Clear

Spec == Init /\ [][Next]_vars

(***************************************************************************)
(* Properties of the sampler.                                              *)
(***************************************************************************)
onLand(point) == booleanPointInPolygon(point, landMultiPolygon)
inShape(point, shape) == booleanPointInPolygon(point, toGeoJSON(shape))
pointOf(latlng) == turfPoint(<< latlng.lng, latlng.lat >>, Null)

\* C1: a sampling run draws at most maxAttempts candidates (never a 1001st),
\* in the loop and in total, and it cannot loop for ever, whatever the two
\* predicates answer: inside the loop the counter is the number of draws
\* made, an iteration always has a candidate to draw, and every step of the
\* loop either returns or moves the counter one closer to maxAttempts, which
\* it never passes.
C1_BoundedSampling ==
    /\ [](/\ draws <= maxAttempts
          /\ run.drawCount # "over"
          /\ pc = "sampling" =>
                /\ attempts = draws
                /\ randomBetween(run.bounds.minLat, run.bounds.maxLat) # {}
                /\ randomBetween(run.bounds.minLng, run.bounds.maxLng) # {})
    /\ [][pc = "sampling" =>
            \/ pc' = "idle"
            \/ pc' = "sampling" /\ attempts' = attempts + 1
                                /\ attempts' <= maxAttempts]_vars

\* C1 witness: a run has drawn all maxAttempts candidates and is still in
\* the loop, about to leave it.
C1_Witness == pc = "sampling" /\ draws = maxAttempts

\* C2: an accepted point is inside the shape the run was given and on land,
\* and so is the birth marker while it is shown for that run; no marker is
\* ever off land.
C2_DualMembership ==
    /\ run.result = "Accepted" =>
          /\ inShape(run.point, run.shape)
          /\ onLand(run.point)
          /\ run.markerSet
          /\ birthMarker # Null =>
                /\ pointOf(birthMarker) = run.point
                /\ inShape(pointOf(birthMarker), run.shape)
    /\ birthMarker # Null => onLand(pointOf(birthMarker))

\* C2 witness: a run accepted a point after rejecting at least one candidate,
\* and the marker shows it.
C2_Witness ==
    /\ run.result = "Accepted"
    /\ run.drawCount = "some"
    /\ birthMarker # Null
    /\ pointOf(birthMarker) = run.point

\* C3: an accepted point is the first candidate of its run to pass both
\* tests and the loop is left with it (nothing more is drawn); a run ends
\* Exhausted only after exactly maxAttempts rejected candidates, and once
\* maxAttempts candidates are rejected the only step left is the Exhausted
\* return.
C3_FirstAcceptedOrExhausted ==
    /\ run.result = "Accepted" =>
          /\ ~run.rejectedValid
          /\ pc = "idle" /\ draws = 0
          /\ inShape(run.point, run.shape) /\ onLand(run.point)
    /\ run.result = "Exhausted" =>
          /\ run.drawCount = "all"
          /\ ~run.rejectedValid
          /\ pc = "idle" /\ draws = 0
    /\ (pc = "sampling" /\ draws = maxAttempts) =>
          /\ ~ENABLED Attempt
          /\ ENABLED Exhaust
    /\ pc = "sampling" => run.result = "Running" /\ ~run.rejectedValid

\* C3 witness: one run ended Exhausted after all its draws.
C3_Witness == run.result = "Exhausted" /\ run.drawCount = "all"

\* C4: an accepted point, and the marker placed for it, lie within the
\* bounding box of the run's shape: between the least and the greatest
\* latitude and longitude of its vertices, also when two of them coincide.
VertexLats(shape) == { shape.latlngs[i].lat : i \in 1..Len(shape.latlngs) }
VertexLngs(shape) == { shape.latlngs[i].lng : i \in 1..Len(shape.latlngs) }
InBoundingBox(lat, lng, shape) ==
    /\ \E a \in VertexLats(shape) : a <= lat
    /\ \E a \in VertexLats(shape) : lat <= a
    /\ \E a \in VertexLngs(shape) : a <= lng
    /\ \E a \in VertexLngs(shape) : lng <= a

C4_BoundingBoxContainment ==
    run.result = "Accepted" =>
       /\ InBoundingBox(run.point.coordinates[2], run.point.coordinates[1], run.shape)
       /\ birthMarker # Null =>
             InBoundingBox(birthMarker.lat, birthMarker.lng, run.shape)

\* C4 witness: a point was accepted, and marked, in a shape whose bounding
\* box has no height (maxLat = minLat).
C4_Witness ==
    /\ run.result = "Accepted"
    /\ birthMarker # Null
    /\ run.bounds.minLat = run.bounds.maxLat
    /\ run.bounds.minLng < run.bounds.maxLng

\* C5: a run whose shape's bounding box holds no land point never accepts:
\* it places no marker and calls neither the locator nor the proxy, and when
\* it has returned it is Exhausted after exactly maxAttempts draws.
NoLandInBox(shape) ==
    LET b == getBounds(shape)
    IN  \A lat \in b.minLat..b.maxLat, lng \in b.minLng..b.maxLng :
           ~onLand(turfPoint(<< lng, lat >>, Null))

C5_HostileInputExhausts ==
    (run.result # "None" /\ NoLandInBox(run.shape)) =>
       /\ run.result # "Accepted"
       /\ ~run.markerSet /\ run.locatorCalls = 0 /\ run.fetchCalls = 0
       /\ pc = "idle" => (run.result = "Exhausted" /\ run.drawCount = "all")

\* C5 witness: a run over a land-free box has returned while land exists
\* elsewhere.
C5_Witness ==
    /\ run.result = "Exhausted"
    /\ NoLandInBox(run.shape)
    /\ Len(landMultiPolygon.coordinates) > 0

(***************************************************************************)
(* The nearest-city lookup on its own: the page is loaded with any city    *)
(* list of at most MaxCities cities, and setBirthLocation is called, at    *)
(* most MaxLookups times, with any point of the grid.                      *)
(***************************************************************************)
InitNearest ==
    /\ files \in { Files(cities, << >>) : cities \in CityLists(MaxCities) }
    /\ rollsLeft = MaxLookups
    /\ loadState = "ready"
    /\ citiesFC = citiesFeatureCollection(files.cities)
    /\ landMultiPolygon = turfMultiPolygon(polygonsOf(files.geometries))
    /\ currentShape = Null
    /\ birthMarker = Null
    /\ mapLayers = [shapes |-> << >>, markers |-> << >>]
    /\ infoText = Text("Instructions")
    /\ geminiSnippet = Text("Empty")
    /\ pending = << >>
    /\ pc = "idle"
    /\ attempts = 0
    /\ draws = 0
    /\ run = NoRun
    /\ ProxyIdle

Locate ==
    /\ pc = "idle"
    /\ rollsLeft > 0
    /\ rollsLeft' = rollsLeft - 1
    /\ \E lat \in Coord, lng \in Coord :
          LET point == turfPoint(<< lng, lat >>, Null)
          IN  setBirthLocation(point,
                 [NoRun EXCEPT !.result = "Accepted", !.point = point])
    /\ UNCHANGED << loadState, citiesFC, landMultiPolygon, currentShape, pc,
                    attempts, files, draws >>
    /\ UNCHANGED proxyVars

\* The lookup runs before setBirthLocation first awaits; the snippet
\* requests it leaves behind stay in flight.
NextNearest == Locate

SpecNearest == InitNearest /\ [][NextNearest]_vars

(***************************************************************************)
(* Properties of the nearest-city lookup.                                  *)
(***************************************************************************)
Located == run.locatorCalls > 0 /\ Len(citiesFC.features) > 0

\* C6: on a non-empty city list the lookup yields a city of the list to
\* which the query point is at least as near as to every other city, with
\* the non-negative distance from the query point to that very city, and
\* the text shown names that city and that distance in whole kilometres.
C6_NearestIsMinimal ==
    Located =>
       /\ run.located # Null
       /\ \E i \in 1..Len(citiesFC.features) : citiesFC.features[i] = run.located.city
       /\ \A i \in 1..Len(citiesFC.features) :
             distance(run.point, run.located.city)
                <= distance(run.point, citiesFC.features[i])
       /\ run.located.distance = distance(run.point, run.located.city)
       /\ run.located.distance >= 0
       /\ infoText.kind = "Born"
       /\ infoText.city = run.located.city.properties.name
       /\ infoText.km = toFixed0(run.located.distance)

\* C6 witness: the nearest city is not the first of the list and is strictly
\* nearer than another one.
C6_Witness ==
    /\ Located
    /\ run.located.featureIndex > 1
    /\ run.located.distance > 0
    /\ \E i \in 1..Len(citiesFC.features) :
          distance(run.point, citiesFC.features[i]) > run.located.distance

\* C7: among the cities at the least distance the lookup yields the one that
\* comes first in the list, and a lookup repeated for the same point yields
\* the same city and distance again.
C7_FirstOnTies ==
    /\ [](Located =>
            /\ run.located.city = citiesFC.features[run.located.featureIndex]
            /\ \A i \in 1..Len(citiesFC.features) :
                  distance(run.point, citiesFC.features[i]) = run.located.distance
                     => run.located.featureIndex <= i)
    /\ [][(Located /\ run'.locatorCalls > 0 /\ run'.point = run.point)
             => run'.located = run.located]_vars

\* C7 witness: two cities at different places are equally near to the query
\* point, nearer than any other, and the first of them was returned.
C7_Witness ==
    /\ Located
    /\ \E i \in 1..Len(citiesFC.features) :
          /\ i > run.located.featureIndex
          /\ distance(run.point, citiesFC.features[i]) = run.located.distance
          /\ citiesFC.features[i].coordinates # run.located.city.coordinates

(***************************************************************************)
(* Properties of the page around the sampler.                              *)
(***************************************************************************)
\* C8: with an empty city list the lookup yields no city and no distance
\* and its failure is surfaced: it is not lost in a promise nobody handles,
\* and no marker stands for a success that did not happen.
C8_EmptyCityListSurfaced ==
    (run.locatorCalls > 0 /\ Len(citiesFC.features) = 0) =>
       /\ run.located = Null
       /\ ~run.unhandledRejection
       /\ ~run.markerSet

\* C9: the locator is called exactly when the run was Accepted, and then a
\* marker, a city and a distance are produced for the accepted point; an
\* Exhausted run shows "Select land instead of water." at its return and
\* calls neither the locator nor the proxy.
C9_ResultAssembly ==
    /\ run.result = "Accepted" =>
          /\ run.locatorCalls = 1
          /\ run.markerSet
          /\ run.located # Null
          /\ run.located.distance = distance(run.point, run.located.city)
          /\ run.fetchCalls = 1
    /\ run.result # "Accepted" =>
          /\ run.locatorCalls = 0 /\ run.fetchCalls = 0
          /\ ~run.markerSet /\ run.located = Null

\* C10 as claimed: whenever the shape and the land are the same region, no
\* candidate is rejected: the run is Accepted on its first draw.
SameRegion(shape) ==
    shape # Null /\ landMultiPolygon.coordinates = << toGeoJSON(shape).coordinates >>

C10_SameRegionFirstDraw ==
    (run.result # "None" /\ SameRegion(run.shape)) =>
       /\ run.result # "Exhausted"
       /\ pc = "sampling" => draws = 0
       /\ run.result = "Accepted" =>
             /\ run.drawCount = "first"
             /\ inShape(run.point, run.shape) /\ onLand(run.point)

\* C10 amended: when the shape and the land are the same rectangle (the
\* shape fills its bounding box), no candidate is rejected: the run is
\* Accepted on its first draw, with a point that passes both tests.
C10_SameRectangleFirstDraw ==
    (run.result # "None" /\ SameRegion(run.shape) /\ run.shape.kind = "rectangle") =>
       /\ run.result # "Exhausted"
       /\ pc = "sampling" => draws = 0
       /\ run.result = "Accepted" =>
             /\ run.drawCount = "first"
             /\ inShape(run.point, run.shape) /\ onLand(run.point)

\* C10 witness: a run over the rectangle that is the land was Accepted with
\* a point on the rectangle's edge.
C10_Witness ==
    /\ run.result = "Accepted"
    /\ SameRegion(run.shape) /\ run.shape.kind = "rectangle"
    /\ run.point.coordinates[1] = run.bounds.maxLng

(***************************************************************************)
(* The land mask on its own: the server holds any list of at most          *)
(* MaxGeometries geometries of several kinds, and the page loads it.       *)
(***************************************************************************)
LandGeometries ==
    { Geometry("Polygon", << SquareRing(0, 0, 1, 1) >>),
      Geometry("Polygon", << TriangleRing(0, 1, GridMax, GridMax) >>),
      Geometry("LineString", << <<0, 0>>, <<GridMax, GridMax>> >>),
      Geometry("MultiPolygon", << << SquareRing(0, 0, GridMax, GridMax) >> >>) }

RECURSIVE GeometryLists(_)
GeometryLists(n) ==
    IF n = 0 THEN { << >> }
    ELSE LET shorter == GeometryLists(n - 1)
         IN  shorter \cup
             { Append(l, g) : l \in { x \in shorter : Len(x) = n - 1 },
                              g \in LandGeometries }

InitLand ==
    /\ InitPage
    /\ files \in { Files(<< City(1, 0, 0) >>, geometries) :
                      geometries \in GeometryLists(MaxGeometries) }
    /\ rollsLeft = 0
    /\ ProxyIdle

NextLand ==
    \/ LoadSucceeded
    \/ LoadFailed

SpecLand == InitLand /\ [][NextLand]_vars

\* C11: whatever kinds the land dataset holds, the load goes through, and the
\* land mask it builds holds the coordinates of exactly the members of kind
\* Polygon, in the order of the dataset; a point is on land exactly when one
\* of those members contains it, whatever the dropped members cover.
KeptMembers == { i \in 1..Len(files.geometries) : files.geometries[i].type = "Polygon" }
KeptMember(j) ==
    CHOOSE i \in KeptMembers : Cardinality({ k \in KeptMembers : k <= i }) = j

C11_LandMaskKeepsPolygons ==
    /\ loadState = "loading" => ENABLED LoadSucceeded
    /\ loadState = "ready" =>
          /\ landMultiPolygon.type = "MultiPolygon"
          /\ Len(landMultiPolygon.coordinates) = Cardinality(KeptMembers)
          /\ \A j \in 1..Len(landMultiPolygon.coordinates) :
                landMultiPolygon.coordinates[j] =
                   files.geometries[KeptMember(j)].coordinates
          /\ \A lat \in Coord, lng \in Coord :
                onLand(turfPoint(<< lng, lat >>, Null)) <=>
                   \E i \in KeptMembers :
                      inPolygonRings(<< lng, lat >>, files.geometries[i].coordinates)

\* C11 witness: a loaded dataset with a dropped member before and between two
\* kept polygons, and a point the dropped MultiPolygon covers that is not on
\* land.
C11_Witness ==
    /\ loadState = "ready"
    /\ Len(files.geometries) = 3
    /\ files.geometries[1].type = "MultiPolygon"
    /\ KeptMembers = {2, 3}
    /\ files.geometries[2] # files.geometries[3]
    /\ ~onLand(turfPoint(<< 0, GridMax >>, Null))

(***************************************************************************)
(* The page over several Rolls.  The server holds one city and the unit    *)
(* square as land, and the user draws two shapes: the unit square, where   *)
(* every candidate is valid, and a triangle in the far corner, where none  *)
(* is (its bounding box reaches the land, the triangle does not).          *)
(***************************************************************************)
UIFiles ==
    Files(<< City(1, 0, 0) >>, << Geometry("Polygon", << SquareRing(0, 0, 1, 1) >>) >>)

UIShapes ==
    { Rectangle(0, 0, 1, 1),
      Polygon(<< LatLng(GridMax, GridMax - 1), LatLng(GridMax, GridMax),
                 LatLng(GridMax - 1, GridMax) >>) }

InitUI ==
    /\ InitPage
    /\ files = UIFiles
    /\ rollsLeft = MaxRollsUI
    /\ ProxyIdle

DrawCreatedUI == drawCreated(UIShapes)

NextUI ==
    \/ LoadSucceeded
    \/ LoadFailed
    \/ DrawCreatedUI
    \/ SubmitShape
    \/ Attempt
    \/ Exhaust
    \/ FetchResolved
    \/ FetchRejected
    \/ TimerFired
    \/ Clear

SpecUI == InitUI /\ [][NextUI]_vars

(***************************************************************************)
(* Properties of the page over several Rolls.                              *)
(***************************************************************************)
\* C12: once the load has ended, no step of the page (drawing, Roll and its
\* sampling, the lookup, the snippet request and its timer, Clear) assigns
\* or changes the city collection or the land multi-polygon, and the load
\* does not run again.
C12_DataImmutableAfterLoad ==
    [][loadState # "loading" =>
          /\ citiesFC' = citiesFC
          /\ landMultiPolygon' = landMultiPolygon
          /\ loadState' = loadState]_vars

\* C12 witness: after the load a run was Exhausted, the next one Accepted,
\* its snippet request ended, and Clear was clicked; the data are still there.
C12_Witness ==
    /\ loadState = "ready"
    /\ run.result = "Accepted" /\ run.previous = "Exhausted"
    /\ pending = << >>
    /\ currentShape = Null
    /\ citiesFC = citiesFeatureCollection(files.cities)
    /\ landMultiPolygon = turfMultiPolygon(polygonsOf(files.geometries))

\* C13: the in-shape test and the on-land test answer the same for the same
\* point, shape and land mask before and after a step of the page (every
\* handler, the entry into the loop, its first two iterations and every way
\* out of it), and every iteration of the loop that only evaluates the tests
\* (the candidate is rejected) changes nothing but the loop's own counter:
\* not the land mask, not the shape, nothing the page shows.  The tests are
\* probed at a corner of the land, at the corner the land shares with the
\* triangle's bounding box, and at a vertex of the triangle.
ProbePoints ==
    { turfPoint(<< 0, 0 >>, Null), turfPoint(<< 1, 1 >>, Null),
      turfPoint(<< GridMax, GridMax >>, Null) }

C14_ExhaustedRecoverable ==
    /\ run.result = "Exhausted" =>
          /\ pc = "idle" /\ attempts = 0
          /\ loadState = "ready"
          /\ citiesFC # Null /\ landMultiPolygon # Null
          /\ ~run.markerSet /\ ~run.unhandledRejection
          /\ ENABLED DrawCreatedUI
          /\ ENABLED Clear
          /\ (currentShape # Null /\ rollsLeft > 0) => ENABLED SubmitShape
    /\ (run.previous = "Exhausted" /\ run.result = "Accepted") =>
          /\ inShape(run.point, run.shape) /\ onLand(run.point)
          /\ run.markerSet

\* C14 witness: the run after an Exhausted run, over a newly drawn shape,
\* was Accepted and its marker is on the map.
C14_Witness ==
    /\ run.previous = "Exhausted" /\ run.result = "Accepted"
    /\ birthMarker # Null /\ pointOf(birthMarker) = run.point
    /\ currentShape = run.shape

\* C15: a run never calls the locator or the proxy more than once and never
\* draws more than maxAttempts candidates, and no more requests are in
\* flight than Rolls were clicked; a run starts only in a step that uses up
\* one click on Roll with a shape on the map; outside a run nothing is
\* drawn, looked up or requested (after Exhausted as after anything else);
\* a request is sent only by the step that accepts a point, one at a time;
\* and the step that shows a request's failure takes that request away
\* without sending another.
C15_NoAutomaticRetries ==
    /\ [](/\ run.locatorCalls <= 1 /\ run.fetchCalls <= 1
          /\ draws <= maxAttempts /\ run.drawCount # "over"
          /\ Len(pending) <= MaxRollsUI - rollsLeft)
    /\ [][/\ (pc = "idle" /\ pc' = "sampling") =>
                (rollsLeft' = rollsLeft - 1 /\ currentShape # Null)
          /\ (pc = "idle" /\ pc' = "idle") =>
                /\ run' = run /\ draws' = draws /\ rollsLeft' = rollsLeft
                /\ Len(pending') <= Len(pending)
          /\ Len(pending') > Len(pending) =>
                /\ pc = "sampling" /\ run'.result = "Accepted"
                /\ run'.fetchCalls = 1
                /\ Len(pending') = Len(pending) + 1
          /\ (geminiSnippet' # geminiSnippet /\ geminiSnippet' = Text("Failed")) =>
                Len(pending') = Len(pending) - 1]_vars

\* C15 witness: the request of an accepted run has failed, nothing is in
\* flight, and the user has not clicked Roll again.
C15_Witness ==
    /\ run.result = "Accepted" /\ run.fetchCalls = 1
    /\ geminiSnippet = Text("Failed")
    /\ pending = << >>
    /\ rollsLeft > 0

\* C16: whenever a shape is current, and whenever a sampling run is or was
\* under way, the load has succeeded and both collections are there; while
\* the load has not succeeded (still loading, or failed, even with the
\* cities already built) no shape can be drawn, none is on the map, and no
\* Roll has sampled or marked anything.
C16_SamplingOnlyWithLoadedData ==
    /\ (currentShape # Null \/ pc = "sampling" \/ run.result # "None") =>
          /\ loadState = "ready"
          /\ landMultiPolygon # Null
          /\ citiesFC # Null
    /\ loadState # "ready" =>
          /\ ~ENABLED DrawCreatedUI
          /\ currentShape = Null /\ mapLayers.shapes = << >>
          /\ pc = "idle" /\ draws = 0 /\ run.result = "None"
          /\ birthMarker = Null /\ pending = << >>
          /\ landMultiPolygon = Null

\* C16 witness: the load failed after the cities were built, and the user
\* clicked Roll: there was no shape to sample.
C16_Witness ==
    /\ loadState = "failed"
    /\ citiesFC # Null
    /\ infoText = Text("DrawFirst")
    /\ rollsLeft = MaxRollsUI

\* C17: with no current shape (never drawn, or removed by Clear) Roll can
\* always be clicked, and no step taken then starts a run, draws a
\* candidate, places a marker or sends a request; the step that brings up
\* "Please draw a shape first." happens only with no current shape and
\* changes nothing but that text, which is never shown next to a shape.
C17_RollWithoutShape ==
    /\ []((currentShape = Null /\ pc = "idle") => ENABLED SubmitShape)
    /\ [](infoText = Text("DrawFirst") => (currentShape = Null /\ pc = "idle"))
    /\ [][currentShape = Null =>
            /\ pc' = "idle" /\ draws' = 0 /\ attempts' = 0
            /\ run' = run /\ rollsLeft' = rollsLeft
            /\ birthMarker' = birthMarker \/ birthMarker' = Null
            /\ mapLayers'.markers = mapLayers.markers \/ mapLayers'.markers = << >>
            /\ Len(pending') <= Len(pending)]_vars
    /\ [][(infoText' = Text("DrawFirst") /\ infoText # Text("DrawFirst")) =>
            /\ currentShape = Null
            /\ UNCHANGED << loadState, citiesFC, landMultiPolygon, currentShape,
                            birthMarker, mapLayers, geminiSnippet, pending, pc,
                            attempts, files, rollsLeft, draws, run >>]_vars

\* C17 witness: after an accepted run and a Clear, with the run's request
\* still in flight, Roll was clicked without a shape.
C17_Witness ==
    /\ infoText = Text("DrawFirst")
    /\ run.result = "Accepted"
    /\ birthMarker = Null /\ mapLayers.markers = << >>
    /\ Len(pending) = 1
    /\ geminiSnippet = Text("Empty")

\* C18: the map never shows more than one user shape or more than one birth
\* marker: what it shows is exactly the current shape and the current
\* marker, if any (so a new drawing took the previous shape away and an
\* accepted Roll the previous marker), and when the instructions are shown,
\* as Clear leaves them, there is no shape and no marker at all.
C18_AtMostOneShapeAndMarker ==
    /\ Len(mapLayers.shapes) <= 1
    /\ Len(mapLayers.markers) <= 1
    /\ mapLayers.shapes = IF currentShape = Null THEN << >> ELSE << currentShape >>
    /\ mapLayers.markers = IF birthMarker = Null THEN << >> ELSE << birthMarker >>
    /\ infoText = Text("Instructions") =>
          /\ currentShape = Null /\ birthMarker = Null
          /\ mapLayers = [shapes |-> << >>, markers |-> << >>]

\* C18 witness: two runs in a row were Accepted and a new shape was drawn
\* after the second; one shape and one marker are on the map.
C18_Witness ==
    /\ run.previous = "Accepted" /\ run.result = "Accepted"
    /\ currentShape # Null /\ currentShape # run.shape
    /\ birthMarker # Null
    /\ Len(mapLayers.shapes) = 1 /\ Len(mapLayers.markers) = 1

\* C19: an empty snippet area stays empty until a Roll accepts a point: the
\* only step that puts a text into the empty area is the step of the loop
\* that accepts a candidate.
C19_SnippetStaysEmpty ==
    [][(geminiSnippet = Text("Empty") /\ geminiSnippet' # Text("Empty")) =>
          (pc = "sampling" /\ run'.result = "Accepted")]_vars

(***************************************************************************)
(* Overlapping Rolls: the same page and shapes with two cities, one at     *)
(* each end of the land's diagonal, so that accepted points of the unit    *)
(* square have different nearest cities.                                   *)
(***************************************************************************)
OverlapFiles ==
    Files(<< City(1, 0, 0), City(2, 1, 1) >>,
          << Geometry("Polygon", << SquareRing(0, 0, 1, 1) >>) >>)

InitOverlap ==
    /\ InitPage
    /\ files = OverlapFiles
    /\ rollsLeft = MaxRollsUI
    /\ ProxyIdle

SpecOverlap == InitOverlap /\ [][NextUI]_vars

\* C20: when every request and timer has finished and a snippet is shown
\* next to the marker of the last accepted run, it is the snippet that was
\* requested for that run's city, in whatever order earlier requests ended.
C20_LatestSnippetShown ==
    (/\ pending = << >>
     /\ run.result = "Accepted" /\ run.located # Null
     /\ birthMarker # Null /\ pointOf(birthMarker) = run.point
     /\ geminiSnippet.kind = "Snippet") =>
       geminiSnippet.city = run.located.city.properties.name

(***************************************************************************)
(* The proxy: handler(event) of src/netlify/functions/gemini-proxy.js.     *)
(* An async function runs without interruption up to an await, so the      *)
(* handler is three actions: from the call to `await fetch` (line 83),     *)
(* from there to `await geminiResponse.json()` (line 92), and from there   *)
(* to its return.  Invocations share nothing but the environment.          *)
(*                                                                         *)
(* JavaScript values are tagged records.  A string is either plain text    *)
(* ([type |-> "string", text |-> ...]) or the JSON serialisation of a      *)
(* value ([type |-> "string", json |-> ...]).  A statement that can throw  *)
(* yields a completion: Normal(value) or Throw(error).                     *)
(***************************************************************************)
MaxInvocations == 1  \* invocations of the handler in one behaviour
MaxItems == 1        \* longest candidates / parts array of an upstream body

JString(text) == [type |-> "string", text |-> text]

JsonText(value) == [type |-> "string", json |-> value]

JNumber(n) == [type |-> "number", n |-> n]

JArray(items) == [type |-> "array", items |-> items]

JObject(members) == [type |-> "object", members |-> members]

NoMembers == [k \in {} |-> Undefined]

Normal(value) == [threw |-> FALSE, value |-> value]

Throw(name, message) == [threw |-> TRUE, error |-> [name |-> name, message |-> message]]

nullish(v) == v.type \in {"undefined", "null"}

\* ToBoolean, as the || of lines 10 and 25 and the ! of line 70 apply it
truthy(v) ==
    CASE nullish(v) -> FALSE
      [] v.type = "string" -> ~("text" \in DOMAIN v /\ v.text = "")
      [] v.type = "number" -> v.n # 0
      [] OTHER -> TRUE

\* a || b
orElse(a, b) == IF truthy(a) THEN a ELSE b

\* String.prototype.toUpperCase on the method names a request can carry
toUpperCase(s) ==
    IF "text" \notin DOMAIN s THEN s
    ELSE CASE s.text = "options" -> JString("OPTIONS")
           [] s.text = "post" -> JString("POST")
           [] s.text = "get" -> JString("GET")
           [] OTHER -> s

\* JSON.parse(text): the value of well-formed JSON text, SyntaxError otherwise
JSONparse(text) ==
    IF text.type = "string" /\ "json" \in DOMAIN text
    THEN Normal(text.json)
    ELSE Throw("SyntaxError", "Unexpected token")

\* JSON.stringify(value): members holding undefined are left out of an
\* object, and undefined items of an array become null
RECURSIVE serializable(_)
serializable(v) ==
    CASE v.type = "object" ->
            JObject([k \in { m \in DOMAIN v.members : v.members[m] # Undefined }
                        |-> serializable(v.members[k])])
      [] v.type = "array" ->
            JArray([i \in DOMAIN v.items |->
                        IF v.items[i] = Undefined THEN Null
                        ELSE serializable(v.items[i])])
      [] OTHER -> v

JSONstringify(value) == JsonText(serializable(value))

\* value.key
getMember(v, key) ==
    IF nullish(v)
    THEN Throw("TypeError", "Cannot read properties of " \o v.type)
    ELSE IF v.type = "object" /\ key \in DOMAIN v.members
         THEN Normal(v.members[key])
         ELSE Normal(Undefined)

\* value?.[0]
optionalFirst(v) ==
    CASE nullish(v) -> Undefined
      [] v.type = "array" -> IF Len(v.items) > 0 THEN v.items[1] ELSE Undefined
      [] v.type = "object" -> IF "0" \in DOMAIN v.members THEN v.members["0"]
                              ELSE Undefined
      [] v.type = "string" -> IF truthy(v) THEN JString("?") ELSE Undefined
      [] OTHER -> Undefined

\* `${value}` of line 35
templateString(v) ==
    CASE v.type = "undefined" -> "undefined"
      [] v.type = "null" -> "null"
      [] v.type = "string" /\ "text" \in DOMAIN v -> v.text
      [] v.type = "string" -> "<json>"
      [] v.type = "number" -> ToString(v.n)
      [] v.type = "array" -> "<items>"
      [] OTHER -> "[object Object]"

CorsHeader == "Access-Control-Allow-Origin"

Fulfilled(value) == [type |-> "fulfilled", value |-> value]

Rejected(error) == [type |-> "rejected", reason |-> error]

\* lines 13-20
preflightResponse ==
    [statusCode |-> 200,
     headers |-> (CorsHeader :> "*") @@ ("Access-Control-Allow-Headers" :> "Content-Type"),
     body |-> JString("OK")]

\* lines 72-76
missingKeyResponse ==
    [statusCode |-> 500,
     headers |-> (CorsHeader :> "*"),
     body |-> JSONstringify(JObject([error |->
                 JString("Missing GEMINI_API_KEY in Netlify environment.")]))]

\* lines 98-102
passThroughResponse(response, data) ==
    [statusCode |-> response.status,
     headers |-> (CorsHeader :> "*"),
     body |-> JSONstringify(data)]

\* lines 114-121
snippetResponse(snippetText) ==
    [statusCode |-> 200,
     headers |-> (CorsHeader :> "*") @@ ("Content-Type" :> "application/json"),
     body |-> JSONstringify(JObject([snippet |-> snippetText]))]

\* lines 122-131: the catch around the extraction
snippetCatch(parseErr) ==
    Fulfilled([statusCode |-> 500,
               headers |-> (CorsHeader :> "*"),
               body |-> JSONstringify(JObject(
                           [error |-> JString("Parsing snippet failed."),
                            details |-> JString(parseErr.message)]))])

mainCatchRethrow(err) == Rejected(err)

\* lines 134-141: the catch around the whole body after the preflight
mainCatch(err) ==
    Fulfilled([statusCode |-> 500,
               headers |-> (CorsHeader :> "*"),
               body |-> JSONstringify(JObject([error |-> JString(err.message)]))])

(***************************************************************************)
(* What a request, the environment and the upstream service can hold.      *)
(***************************************************************************)
Methods ==
    { Undefined, JString("OPTIONS"), JString("options"), JString("POST"),
      JString("GET") }

RequestBodies ==
    { Undefined, JString(""), JString("city=Paris"), JsonText(Null),
      JsonText(JNumber(5)), JsonText(JObject(NoMembers)),
      JsonText(JObject([city |-> JString("Paris"), country |-> JString("France"),
                        distance |-> JString("3.2")])) }

Events == [httpMethod : Methods, body : RequestBodies]

ApiKeys == { Undefined, JString(""), JString("key") }

\* line 33: Math.floor(Math.random() * 46) + 1960, its least and greatest value
RandomYears == { 1960, 2005 }

\* line 34
RandomSentiments == { "negative", "positive" }

SeqsUpTo(S, n) == UNION { [1..k -> S] : k \in 0..n }

Parts == { JObject(NoMembers), JObject([text |-> JString("You were born here.")]) }

Contents ==
    { JObject(NoMembers) }
      \cup { JObject([parts |-> JArray(p)]) : p \in SeqsUpTo(Parts, MaxItems) }

Candidates ==
    { JObject([finishReason |-> JString("SAFETY")]) }
      \cup { JObject([content |-> c]) : c \in Contents }

UpstreamData ==
    { Null, JObject(NoMembers),
      JObject([error |-> JObject([status |-> JString("RESOURCE_EXHAUSTED")])]) }
      \cup { JObject([candidates |-> JArray(cs)]) :
                cs \in SeqsUpTo(Candidates, MaxItems) }

UpstreamBodies == { JString("<html>") } \cup { JsonText(d) : d \in UpstreamData }

Statuses == { 200, 201, 400, 429, 500, 503 }

\* a fetch Response: geminiResponse.status and the text of its body
UpstreamResponses == [status : Statuses, body : UpstreamBodies]

\* geminiResponse.ok
ok(response) == response.status \in 200..299

\* geminiResponse.json(), line 92
responseJson(response) == JSONparse(response.body)

(***************************************************************************)
(* handler(event), lines 3-87: from the call to the await of fetch.  The   *)
(* result is how the promise settled, or the request handed to fetch.      *)
(***************************************************************************)
requestBody(userPrompt) ==
    JObject([contents |-> JArray(<< JObject([role |-> JString("user"),
                 parts |-> JArray(<< JObject([text |-> JString(userPrompt)]) >>)]) >>),
             systemInstruction |-> JObject([role |-> JString("user"),
                 parts |-> JArray(<< JObject([text |-> JString("systemInstructionText")]) >>)]),
             generationConfig |-> JObject([temperature |-> JNumber(1),
                 topK |-> JNumber(40), maxOutputTokens |-> JNumber(8192),
                 responseMimeType |-> JString("text/plain")])])

Settle(settled) == [kind |-> "settled", settled |-> settled]

Fetch(request) == [kind |-> "fetch", request |-> request]

handlerToFetch(ev, apiKey, randomYear, randomSentiment) ==
    LET method == toUpperCase(orElse(ev.httpMethod, JString("")))
    IN  IF method = JString("OPTIONS")
        THEN Settle(Fulfilled(preflightResponse))
        ELSE LET body == JSONparse(orElse(ev.body, JsonText(JObject(NoMembers))))
             IN  IF body.threw
                 THEN Settle(mainCatch(body.error))
                 ELSE LET cityName == getMember(body.value, "city")
                          country == getMember(body.value, "country")
                          distanceKm == getMember(body.value, "distance")
                      IN  IF cityName.threw
                          THEN Settle(mainCatch(cityName.error))
                          ELSE LET userPrompt ==
                                       templateString(cityName.value) \o ", "
                                         \o templateString(country.value) \o ", "
                                         \o templateString(distanceKm.value) \o ", "
                                         \o randomSentiment \o ", "
                                         \o ToString(randomYear)
                               IN  IF ~truthy(apiKey)
                                   THEN Settle(Fulfilled(missingKeyResponse))
                                   ELSE Fetch([key |-> apiKey, method |-> "POST",
                                               body |-> JSONstringify(
                                                          requestBody(userPrompt))])

\* lines 107-110
extractSnippet(data) ==
    LET candidates == getMember(data, "candidates")
    IN  IF candidates.threw THEN candidates
        ELSE LET contentObj == getMember(optionalFirst(candidates.value), "content")
             IN  IF contentObj.threw THEN contentObj
                 ELSE LET parts == getMember(contentObj.value, "parts")
                      IN  IF parts.threw THEN parts
                          ELSE getMember(optionalFirst(parts.value), "text")

\* lines 92-132: from the settled json() to the return
handlerFromJson(response) ==
    LET data == responseJson(response)
    IN  IF data.threw
        THEN mainCatch(data.error)
        ELSE IF ~ok(response)
             THEN Fulfilled(passThroughResponse(response, data.value))
             ELSE LET snippetText == extractSnippet(data.value)
                  IN  IF snippetText.threw
                      THEN snippetCatch(snippetText.error)
                      ELSE Fulfilled(snippetResponse(snippetText.value))

(***************************************************************************)
(* The handler's steps.                                                    *)
(***************************************************************************)
HandlerInvoked ==
    /\ handlerPc = "idle"
    /\ invocationsLeft > 0
    /\ \E ev \in Events, randomYear \in RandomYears,
          randomSentiment \in RandomSentiments :
          LET step == handlerToFetch(ev, env, randomYear, randomSentiment)
          IN  /\ event' = ev
              /\ IF step.kind = "fetch"
                 THEN /\ sentRequests' = << step.request >>
                      /\ handlerPc' = "awaitFetch"
                      /\ handlerResult' = Null
                 ELSE /\ sentRequests' = << >>
                      /\ handlerPc' = "settled"
                      /\ handlerResult' = step.settled
    /\ geminiResponse' = Null
    /\ invocationsLeft' = invocationsLeft - 1
    /\ UNCHANGED << env, pageVars >>

\* line 83: fetch resolves with the upstream response, whatever its status
GeminiResponded ==
    /\ handlerPc = "awaitFetch"
    /\ \E response \in UpstreamResponses : geminiResponse' = response
    /\ handlerPc' = "awaitJson"
    /\ UNCHANGED << env, event, sentRequests, handlerResult, invocationsLeft,
                    pageVars >>

\* line 83: fetch rejects (no network, DNS failure), caught at line 134
GeminiFetchFailed ==
    /\ handlerPc = "awaitFetch"
    /\ handlerResult' = mainCatch([name |-> "TypeError", message |-> "fetch failed"])
    /\ handlerPc' = "settled"
    /\ UNCHANGED << env, event, sentRequests, geminiResponse, invocationsLeft,
                    pageVars >>

\* lines 92-132
GeminiJsonSettled ==
    /\ handlerPc = "awaitJson"
    /\ handlerResult' = handlerFromJson(geminiResponse)
    /\ handlerPc' = "settled"
    /\ UNCHANGED << env, event, sentRequests, geminiResponse, invocationsLeft,
                    pageVars >>

\* the platform sends the settled result to the client; the invocation and
\* everything local to it are gone, the environment stays
InvocationEnded ==
    /\ handlerPc = "settled"
    /\ handlerPc' = "idle"
    /\ event' = Null
    /\ sentRequests' = << >>
    /\ geminiResponse' = Null
    /\ handlerResult' = Null
    /\ UNCHANGED << env, invocationsLeft, pageVars >>

InitProxy ==
    /\ InitPage
    /\ files = UIFiles
    /\ rollsLeft = 0
    /\ env \in ApiKeys
    /\ event = Null
    /\ handlerPc = "idle"
    /\ sentRequests = << >>
    /\ geminiResponse = Null
    /\ handlerResult = Null
    /\ invocationsLeft = MaxInvocations

NextProxy ==
    \/ HandlerInvoked
    \/ GeminiResponded
    \/ GeminiFetchFailed
    \/ GeminiJsonSettled
    \/ InvocationEnded

SpecProxy == InitProxy /\ [][NextProxy]_vars

(***************************************************************************)
(* Claims about the proxy handler.                                         *)
(***************************************************************************)
MembersNamed(values, key) ==
    UNION { IF v.type = "object" /\ key \in DOMAIN v.members
            THEN { v.members[key] } ELSE {} : v \in values }

FirstItems(values) ==
    UNION { IF v.type = "array" /\ Len(v.items) > 0
            THEN { v.items[1] } ELSE {} : v \in values }

\* the text at candidates[0].content.parts[0].text of the upstream body, if
\* the upstream answered with JSON that holds one
UpstreamTexts ==
    IF geminiResponse = Null \/ "json" \notin DOMAIN geminiResponse.body
    THEN {}
    ELSE MembersNamed(FirstItems(MembersNamed(MembersNamed(FirstItems(
             MembersNamed({ geminiResponse.body.json }, "candidates")),
             "content"), "parts")), "text")

\* the snippets a response carries: the member `snippet` of a 200 JSON body
SnippetsCarried ==
    IF handlerResult = Null \/ handlerResult.type # "fulfilled"
    THEN {}
    ELSE LET response == handlerResult.value
         IN  IF response.statusCode = 200 /\ "json" \in DOMAIN response.body
             THEN MembersNamed({ response.body.json }, "snippet")
             ELSE {}

\* C21: the handler never throws.  Whatever the request (preflight, missing
\* or malformed body, missing key) and whatever the upstream does (error
\* status, body without candidates / content / parts, failed fetch), the
\* handler's promise is fulfilled with a response that has a status code
\* and the header Access-Control-Allow-Origin: '*'; and a 200 response
\* carries a snippet only if the upstream answered with a 2xx status and
\* the snippet is the text found at candidates[0].content.parts[0].text.
C21_HandlerAlwaysResponds ==
    handlerPc = "settled" =>
        /\ handlerResult.type = "fulfilled"
        /\ handlerResult.value.statusCode \in 100..599
        /\ CorsHeader \in DOMAIN handlerResult.value.headers
        /\ handlerResult.value.headers[CorsHeader] = "*"
        /\ SnippetsCarried # {} =>
               /\ Len(sentRequests) = 1
               /\ geminiResponse # Null
               /\ geminiResponse.status \in 200..299
               /\ SnippetsCarried = UpstreamTexts

\* C21 witness: an invocation went upstream, got a 2xx answer holding a
\* text, and returned it as the snippet of a 200 response.
C21_Witness ==
    /\ handlerPc = "settled"
    /\ handlerResult.type = "fulfilled"
    /\ SnippetsCarried # {}
    /\ SnippetsCarried = UpstreamTexts

\* C21 second witness: the upstream answered 2xx without candidates and the
\* handler still returned a response (500) instead of throwing.
C21_WitnessNoCandidates ==
    /\ handlerPc = "settled"
    /\ geminiResponse # Null
    /\ geminiResponse.status \in 200..299
    /\ UpstreamTexts = {}
    /\ handlerResult.type = "fulfilled"
    /\ handlerResult.value.statusCode = 500

IsPreflight == event.httpMethod \in { JString("OPTIONS"), JString("options") }

KeySet == env \notin { Undefined, JString("") }

\* C22, first part: a request goes upstream only for a non-OPTIONS request
\* whose body parsed (a missing or empty body stands for '{}') and only
\* when GEMINI_API_KEY is set; a preflight returns 200 'OK' and a missing
\* key returns 500 with an error body, both without any upstream request.
C22_SendsOnlyWhenReady ==
    /\ Len(sentRequests) <= 1
    /\ Len(sentRequests) = 1 =>
           /\ ~IsPreflight
           /\ event.body \in { Undefined, JString("") } \/ "json" \in DOMAIN event.body
           /\ KeySet
    /\ (handlerPc = "settled" /\ IsPreflight) =>
           /\ handlerResult = Fulfilled(preflightResponse)
           /\ handlerResult.value.statusCode = 200
           /\ handlerResult.value.body = JString("OK")
           /\ sentRequests = << >>
    /\ (handlerPc = "settled" /\ ~IsPreflight /\ ~KeySet) =>
           /\ handlerResult.type = "fulfilled"
           /\ handlerResult.value.statusCode = 500
           /\ MembersNamed({ handlerResult.value.body.json }, "error") # {}
           /\ sentRequests = << >>

\* C22, second part: an upstream non-OK status is passed through unchanged
\* as the proxy's status code.
C22_ErrorStatusPassedThrough ==
    (handlerPc = "settled" /\ geminiResponse # Null
        /\ geminiResponse.status \notin 200..299) =>
           /\ handlerResult.type = "fulfilled"
           /\ handlerResult.value.statusCode = geminiResponse.status

\* C22: the proxy sends a request upstream only for a non-OPTIONS request
\* whose body parsed and only when GEMINI_API_KEY is set (a preflight
\* returns 200 'OK', a missing key 500 with an error body, both without an
\* upstream request), and an upstream non-OK status is passed through
\* unchanged as the proxy's status code.
C22_UpstreamContract == C22_SendsOnlyWhenReady /\ C22_ErrorStatusPassedThrough

====
